---- MODULE Spec2Model ----
(***************************************************************************)
(* Forward propagation of the plotter (pkg/pos): WritePlotFile, the        *)
(* table pass WriteTable, WriteHeader, and the keyed block hash At.         *)
(***************************************************************************)
EXTENDS Integers, Sequences, FiniteSets, TLC

(***************************************************************************)
(* Bounds of the model.                                                     *)
(***************************************************************************)
\* longest previous table a stand-alone WriteTable pass is given
MaxLen == 4
\* largest hash value (Fx) an entry of a previous table holds
MaxFx == 7
\* largest size parameter k a pipeline run is given
MaxK == 2
\* longest of the short memos a header is written with
MaxMemoLen == 2
\* largest key of the block cipher At is given
MaxKey == 1

VARIABLES
    \* ---- WriteTable: parameters (also WritePlotFile's locals of the same name)
    k, t, previousStart, currentStart, entryLen,
    \* ---- WriteTable: the previous table's region and what ends it
    table, term,
    \* ---- WriteTable: locals
    read, written, bucketID, leftBucket, rightBucket, index,
    \* ---- WriteTable: position, returned (count, error)
    wtpc, wtRet, wtErr,
    \* ---- WriteTable: what it did (the next table's region, the calls it made)
    out, matcherCalls, hashCalls, last,
    \* ---- WriteHeader: arguments, the file's bytes, the write it is at,
    \*      the running count n, returned (count, error)
    memo, id, file, hstep, hn, hRet, hErr, hfail,
    \* ---- WritePlotFile: position, locals, returned error
    pc, availableMemory, headerLen, wrote, maxNumber, spare, retErr,
    \* ---- WritePlotFile: what it did (tables handed to sort.OnDisk with
    \*      success, WriteTable passes started, table regions of the file)
    sortedTables, wtCalls, regions,
    \* ---- WritePlotFile: the entries WriteFirstTable wrote, the calls of
    \*      sort.OnDisk with their arguments
    ftOut, sortCalls,
    \* ---- At: arguments x, y and the cipher c (its key, and whether its
    \*      Encrypt tolerates a slice shorter than a block), position,
    \*      returned (value, error), the block the last Encrypt produced
    x, y, key, tolerant, atpc, atR, atErr, atFinal

wtVars == << k, t, previousStart, currentStart, entryLen, table, term,
             read, written, bucketID, leftBucket, rightBucket, index,
             wtpc, wtRet, wtErr, out, matcherCalls, hashCalls, last >>

hdrVars == << memo, id, file, hstep, hn, hRet, hErr, hfail >>

pfVars == << pc, availableMemory, headerLen, wrote, maxNumber, spare, retErr,
             sortedTables, wtCalls, regions, ftOut, sortCalls >>

atVars == << x, y, key, tolerant, atpc, atR, atErr, atFinal >>

vars == << wtVars, hdrVars, pfVars, atVars >>

(***************************************************************************)
(* Collaborators of the table pass whose code is outside the source files. *)
(***************************************************************************)
\* parameters.BucketID: the bucket of a hash value, buckets of kBC values
kBC == 2
BucketID(fx) == fx \div kBC

\* serialize.Write: bytes one entry of table tt takes (fixed-length entries)
EntryBytes(tt) == IF tt = 1 THEN 1 ELSE 2

\* the matching predicate of FindMatches: same position in adjacent buckets
MatchPred(l, r) ==
    /\ BucketID(r.Fx) = BucketID(l.Fx) + 1
    /\ r.Fx % kBC = l.Fx % kBC

\* FindMatches(leftBucket, rightBucket): the matching pairs, left-major order
FindMatches(L, R) ==
    LET n == Len(L) * Len(R)
        pair(i) == << L[((i - 1) \div Len(R)) + 1], R[((i - 1) % Len(R)) + 1] >>
        ok(i) == MatchPred(pair(i)[1], pair(i)[2])
        idx == SelectSeq([i \in 1..n |-> i], ok)
    IN  [j \in 1..Len(idx) |->
            [ Left          |-> pair(idx[j])[1].Fx,
              LeftMetadata  |-> pair(idx[j])[1].Meta,
              RightMetadata |-> pair(idx[j])[2].Meta,
              LeftIndex     |-> pair(idx[j])[1].Index,
              RightIndex    |-> pair(idx[j])[2].Index ]]

\* Fx.Calculate(t, left, leftMetadata, rightMetadata): the next table's hash
Calculate(tt, left, lm, rm) == (left + tt + Len(lm) + 3 * lm[1] + rm[1]) % (MaxFx + 1)

\* Collate(t, k, leftMetadata, rightMetadata): the combined metadata
Collate(tt, kk, lm, rm) == lm \o rm

(***************************************************************************)
(* WriteTable (plot.go:110-187).                                            *)
(***************************************************************************)
\* plot.go:146, the guard of the matching in the default branch
BothNonEmpty_Or(l, r) == Len(l) > 0 \/ Len(r) > 0
BothNonEmpty(l, r) == Len(l) > 0 /\ Len(r) > 0

\* the entry serialize.Read decodes at offset previousStart+read
ReadPos == IF entryLen = 0 THEN 1 ELSE (read \div entryLen) + 1

\* plot.go:125-126, the read at previousStart+read meets the sentinel or the
\* end of the file: all entries of the table are read
AtEnd_OneEarly == ReadPos >= Len(table)
AtEnd == ReadPos > Len(table)
ReadEntry == [ Fx |-> table[ReadPos].Fx, Meta |-> table[ReadPos].Meta, Index |-> index ]

\* the entry written for match m at currentStart+w
NewEntry(m, w) ==
    [ Fx    |-> Calculate(t, m.Left, m.LeftMetadata, m.RightMetadata),
      Meta  |-> Collate(t, k, m.LeftMetadata, m.RightMetadata),
      Left  |-> m.LeftIndex,
      Right |-> m.RightIndex,
      Off   |-> currentStart + w,
      Bytes |-> EntryBytes(t) ]

\* plot.go:149-166, the first n matches written, starting at written = w
RECURSIVE WriteMatches(_, _, _)
WriteMatches(ms, n, w) ==
    IF n = 0 THEN << >>
    ELSE WriteMatches(ms, n - 1, w)
            \o << NewEntry(ms[n], w + (n - 1) * EntryBytes(t)) >>

\* plot.go:168-179, the window after the default branch
SlideOrReset_KeepRight(leftBucketID) ==
    IF leftBucketID = bucketID + 2
    THEN [ bucketID |-> bucketID + 1, leftBucket |-> rightBucket, rightBucket |-> rightBucket ]
    ELSE [ bucketID |-> leftBucketID, leftBucket |-> << >>, rightBucket |-> << >> ]
SlideOrReset(leftBucketID) ==
    IF leftBucketID = bucketID + 2
    THEN [ bucketID |-> bucketID + 1, leftBucket |-> rightBucket, rightBucket |-> << >> ]
    ELSE [ bucketID |-> leftBucketID, leftBucket |-> << >>, rightBucket |-> << >> ]

\* plot.go:163, the count returned when the write of an entry fails after w
\* of its bytes
RetOnWriteError_Dropped(wr, w) == wr
RetOnWriteError(wr, w) == wr + w

\* plot.go:125-128, the read meets the sentinel or the end of the file
WT_ReadEnd ==
    /\ wtpc = "loop"
    /\ AtEnd
    /\ wtpc' = "done"
    /\ wtRet' = written
    /\ wtErr' = "nil"
    /\ last' = [ branch |-> term, matched |-> FALSE, entry |-> << >>,
                 nl |-> Len(leftBucket), nr |-> Len(rightBucket) ]
    /\ UNCHANGED << k, t, previousStart, currentStart, entryLen, table, term,
                    read, written, bucketID, leftBucket, rightBucket, index,
                    out, matcherCalls, hashCalls, hdrVars, pfVars, atVars >>

\* plot.go:129-131, the read fails
WT_ReadError ==
    /\ wtpc = "loop"
    /\ ~AtEnd
    /\ wtpc' = "done"
    /\ wtRet' = written
    /\ wtErr' = "read"
    /\ last' = [ branch |-> "readerr", matched |-> FALSE, entry |-> << >>,
                 nl |-> Len(leftBucket), nr |-> Len(rightBucket) ]
    /\ UNCHANGED << k, t, previousStart, currentStart, entryLen, table, term,
                    read, written, bucketID, leftBucket, rightBucket, index,
                    out, matcherCalls, hashCalls, hdrVars, pfVars, atVars >>

\* plot.go:132-183, one iteration with no error
WT_Step ==
    /\ wtpc = "loop"
    /\ ~AtEnd
    /\ LET e == ReadEntry
           leftBucketID == BucketID(e.Fx)
       IN
       /\ read' = read + entryLen
       /\ index' = index + 1
       /\ IF leftBucketID = bucketID
          THEN /\ leftBucket' = Append(leftBucket, e)
               /\ last' = [ branch |-> "left", matched |-> FALSE, entry |-> e,
                            nl |-> Len(leftBucket), nr |-> Len(rightBucket) ]
               /\ UNCHANGED << rightBucket, bucketID, written, out,
                               matcherCalls, hashCalls >>
          ELSE IF leftBucketID = bucketID + 1
          THEN /\ rightBucket' = Append(rightBucket, e)
               /\ last' = [ branch |-> "right", matched |-> FALSE, entry |-> e,
                            nl |-> Len(leftBucket), nr |-> Len(rightBucket) ]
               /\ UNCHANGED << leftBucket, bucketID, written, out,
                               matcherCalls, hashCalls >>
          ELSE LET doMatch == BothNonEmpty(leftBucket, rightBucket)
                   ms == IF doMatch THEN FindMatches(leftBucket, rightBucket) ELSE << >>
                   w == SlideOrReset(leftBucketID)
               IN
               /\ out' = out \o WriteMatches(ms, Len(ms), written)
               /\ written' = written + Len(ms) * EntryBytes(t)
               /\ hashCalls' = hashCalls + Len(ms)
               /\ matcherCalls' =
                    IF doMatch
                    THEN Append(matcherCalls,
                                [ bucketID |-> bucketID, left |-> leftBucket,
                                  right |-> rightBucket ])
                    ELSE matcherCalls
               /\ bucketID' = w.bucketID
               /\ leftBucket' = w.leftBucket
               /\ rightBucket' = w.rightBucket
               /\ last' = [ branch |-> "default", matched |-> doMatch, entry |-> e,
                            nl |-> Len(leftBucket), nr |-> Len(rightBucket) ]
    /\ UNCHANGED << k, t, previousStart, currentStart, entryLen, table, term,
                    wtpc, wtRet, wtErr, hdrVars, pfVars, atVars >>

\* plot.go:150-164, the default branch's matching stopped by an error at match n
WT_StepFail ==
    /\ wtpc = "loop"
    /\ ~AtEnd
    /\ LET e == ReadEntry
           leftBucketID == BucketID(e.Fx)
           ms == FindMatches(leftBucket, rightBucket)
       IN
       /\ leftBucketID # bucketID
       /\ leftBucketID # bucketID + 1
       /\ BothNonEmpty(leftBucket, rightBucket)
       /\ \E n \in 1..Len(ms), kind \in {"hash", "collate", "write"} :
          \E w \in 0..EntryBytes(t) :
            /\ kind # "write" => w = 0
            /\ out' = out \o WriteMatches(ms, n - 1, written)
                          \o (IF w > 0
                              THEN << [ NewEntry(ms[n], written + (n - 1) * EntryBytes(t))
                                          EXCEPT !.Bytes = w ] >>
                              ELSE << >>)
            /\ written' = written + (n - 1) * EntryBytes(t)
            /\ hashCalls' = hashCalls + n
            /\ wtRet' = IF kind = "write" THEN RetOnWriteError(written', w) ELSE written'
            /\ wtErr' = kind
       /\ matcherCalls' = Append(matcherCalls,
                                 [ bucketID |-> bucketID, left |-> leftBucket,
                                   right |-> rightBucket ])
       /\ read' = read + entryLen
       /\ last' = [ branch |-> "default", matched |-> TRUE, entry |-> e,
                     nl |-> Len(leftBucket), nr |-> Len(rightBucket) ]
       /\ wtpc' = "done"
    /\ UNCHANGED << k, t, previousStart, currentStart, entryLen, table, term,
                    bucketID, leftBucket, rightBucket, index, hdrVars, pfVars, atVars >>


(***************************************************************************)
(* WriteHeader (plot.go:189-223).                                           *)
(***************************************************************************)
\* byte(x), plot.go:207 and plot.go:214
ByteMod == 256
Byte(v) == v % ByteMod

\* plot.go:196, "Proof of Space Plot"
Magic == << 80, 114, 111, 111, 102, 32, 111, 102, 32, 83,
            112, 97, 99, 101, 32, 80, 108, 111, 116 >>

\* plot.go:191, the length of a plot id
IdLen == 32

\* plot.go:213-214, the two bytes of the memo length field
SizeBuf(m) == << Byte(Len(m)), 0 >>

\* the bytes the i-th file.Write of WriteHeader is given
HeaderField(i) ==
    CASE i = 1 -> Magic
      [] i = 2 -> id
      [] i = 3 -> << Byte(k) >>
      [] i = 4 -> SizeBuf(memo)
      [] i = 5 -> memo

\* plot.go:198, 204, 210, 218, 222: what a failed write makes WriteHeader return
CountOnError_Before(total, nmore) == total
CountOnError(total, nmore) == total + nmore

\* a file.Write that succeeds: all of the field is written
HW_WriteOk ==
    /\ hstep \in 1..5
    /\ file' = file \o HeaderField(hstep)
    /\ hn' = hn + Len(HeaderField(hstep))
    /\ IF hstep = 5
       THEN /\ hstep' = 6
            /\ hRet' = hn'
            /\ hErr' = "nil"
       ELSE /\ hstep' = hstep + 1
            /\ UNCHANGED << hRet, hErr >>
    /\ UNCHANGED << memo, id, hfail, wtVars, pfVars, atVars >>

\* a file.Write that fails after nmore bytes of the field
HW_WriteFail ==
    /\ hstep \in 1..5
    /\ \E nmore \in 0..Len(HeaderField(hstep)) :
         /\ file' = file \o SubSeq(HeaderField(hstep), 1, nmore)
         /\ hn' = hn + nmore
         /\ hRet' = CountOnError(hn, nmore)
         /\ hfail' = [ at |-> hstep, nmore |-> nmore ]
    /\ hErr' = "write"
    /\ hstep' = 6
    /\ UNCHANGED << memo, id, wtVars, pfVars, atVars >>


\* a header about to be written to a freshly created file
HdrStart ==
    /\ file = << >>
    /\ hstep = 1
    /\ hn = 0
    /\ hRet = 0
    /\ hErr = "nil"
    /\ hfail = [ at |-> 0, nmore |-> 0 ]

HdrIdle ==
    /\ memo = << >>
    /\ id = << >>
    /\ file = << >>
    /\ hstep = 0
    /\ hn = 0
    /\ hRet = 0
    /\ hErr = "nil"
    /\ hfail = [ at |-> 0, nmore |-> 0 ]

\* plot ids: 32 bytes each
Ids == { [ i \in 1..IdLen |-> IF i = 2 THEN 2 ELSE 0 ],
         [ i \in 1..IdLen |-> IF i = 2 THEN 1 ELSE 0 ],
         [ i \in 1..IdLen |-> i ] }

\* a memo of len bytes
MemoOf(len) == [ i \in 1..len |-> Byte(7 * i + len) ]

\* memo lengths: the short ones, and those around what one byte can hold
MemoLens == (0..MaxMemoLen) \cup { ByteMod - 1, ByteMod, ByteMod + MaxMemoLen }

(***************************************************************************)
(* big.Int values and byte slices, as sequences of bits, most significant  *)
(* first; a big.Int has no leading zero bit and zero is the empty sequence. *)
(***************************************************************************)
Zeros(len) == [ i \in 1..len |-> 0 ]

Norm(b) ==
    LET ones == { i \in 1..Len(b) : b[i] = 1 }
    IN  IF ones = { } THEN << >>
        ELSE SubSeq(b, CHOOSE i \in ones : \A j \in ones : i <= j, Len(b))

PadLeft(b, len) == IF Len(b) >= len THEN b ELSE Zeros(len - Len(b)) \o b
PadRight(b, len) == IF Len(b) >= len THEN b ELSE b \o Zeros(len - Len(b))

\* (*big.Int).Bytes and (*big.Int).SetBytes
Bytes(v) == PadLeft(v, 8 * ((Len(v) + 7) \div 8))
SetBytes(b) == Norm(b)

\* (*big.Int).Xor
Xor(a, b) ==
    LET len == IF Len(a) >= Len(b) THEN Len(a) ELSE Len(b)
    IN  Norm([ i \in 1..len |-> (PadLeft(a, len)[i] + PadLeft(b, len)[i]) % 2 ])

\* (*big.Int).Uint64: the low 64 bits
Uint64(v) == IF Len(v) <= 64 THEN v ELSE Norm(SubSeq(v, Len(v) - 63, Len(v)))

\* the bits of a small number
RECURSIVE BitsOf(_)
BitsOf(v) == IF v = 0 THEN << >> ELSE Append(BitsOf(v \div 2), v % 2)

(***************************************************************************)
(* At (encrypt.go:12-77).                                                   *)
(***************************************************************************)
\* encrypt.go:13, param = 1 << 128; also the block size of the cipher
BlockBits == 128

\* encrypt.go:18 and 23, DivMod by param
High(v) == IF Len(v) <= BlockBits THEN << >> ELSE SubSeq(v, 1, Len(v) - BlockBits)
Low(v) == IF Len(v) <= BlockBits THEN v ELSE Norm(SubSeq(v, Len(v) - BlockBits + 1, Len(v)))

\* CollaSize(t): the collation size of table tt, 0 when it has none (an error)
CollaSize(tt) ==
    CASE tt = 2 -> 1
      [] tt = 3 -> 2
      [] tt = 4 -> 4
      [] tt = 5 -> 4
      [] tt = 6 -> 3
      [] tt = 7 -> 2
      [] OTHER -> 0

\* utils.ConcatBig(k, a, b): a shifted left by k bits, then b
ConcatBig(kk, a, b) ==
    LET hi == IF a = << >> THEN << >> ELSE a \o Zeros(kk)
        len == IF Len(hi) >= Len(b) THEN Len(hi) ELSE Len(b)
    IN  Norm([ i \in 1..len |->
                 IF PadLeft(hi, len)[i] + PadLeft(b, len)[i] > 0 THEN 1 ELSE 0 ])

\* utils.Trunc(res, 0, k+5, k): the most significant len bits of a block
Trunc(res, len) == Norm(SubSeq(PadLeft(res, BlockBits), 1, len))

\* the block cipher c: the block it makes of the first block of src
CipherBlock(src) ==
    LET blk == SubSeq(PadRight(src, BlockBits), 1, BlockBits)
    IN  [ i \in 1..BlockBits |->
            (blk[((i + 4) % BlockBits) + 1]
               + (IF i % (MaxKey + 2) = key THEN 1 ELSE 0)) % 2 ]

\* c.Encrypt(dst, src): dst afterwards (a slice keeps its length: the block is
\* written as far as dst reaches), the block made, and whether dst or src is
\* shorter than a block, on which crypto/aes panics
Encrypt(dst, src) ==
    [ dst   |-> [ i \in 1..Len(dst) |->
                    IF i <= BlockBits THEN CipherBlock(src)[i] ELSE dst[i] ],
      block |-> CipherBlock(src),
      short |-> Len(dst) < BlockBits \/ Len(src) < BlockBits ]

\* encrypt.go:33, 44, 48, 52, 60, 66: var cipherText []byte, a nil slice
NilSlice == << >>

\* encrypt.go:35-36
AtCase1 ==
    LET e1 == Encrypt(NilSlice, Bytes(ConcatBig(k, x, y)))
    IN  [ cipherText |-> e1.dst, final |-> e1.block, short |-> e1.short ]

\* encrypt.go:38-41
AtCase2 ==
    LET e1 == Encrypt(NilSlice, Bytes(x))
        tmp == SetBytes(e1.dst)
        e2 == Encrypt(e1.dst, Bytes(Xor(tmp, y)))
    IN  [ cipherText |-> e2.dst, final |-> e2.block, short |-> e1.short \/ e2.short ]

\* encrypt.go:43-57
AtCase3 ==
    LET e1 == Encrypt(NilSlice, Bytes(ConcatBig(k, Low(x), Low(y))))
        ccBig == SetBytes(e1.dst)
        e2 == Encrypt(NilSlice, Bytes(High(y)))
        cyBig == SetBytes(e2.dst)
        e3 == Encrypt(NilSlice, Bytes(High(x)))
        cxBig == SetBytes(e3.dst)
        e4 == Encrypt(NilSlice, Bytes(Xor(Xor(ccBig, cyBig), cxBig)))
    IN  [ cipherText |-> e4.dst, final |-> e4.block,
          short |-> e1.short \/ e2.short \/ e3.short \/ e4.short ]

\* encrypt.go:59-70
AtCase4 ==
    LET e1 == Encrypt(NilSlice, Bytes(High(x)))
        tmpBig1 == SetBytes(e1.dst)
        e2 == Encrypt(e1.dst, Bytes(Xor(tmpBig1, Low(x))))
        tmpBig == SetBytes(e2.dst)
        e3 == Encrypt(NilSlice, Bytes(High(y)))
        cyBig == SetBytes(e3.dst)
        e4 == Encrypt(NilSlice, Bytes(Xor(Xor(tmpBig, cyBig), Low(y))))
    IN  [ cipherText |-> e4.dst, final |-> e4.block,
          short |-> e1.short \/ e2.short \/ e3.short \/ e4.short ]

\* encrypt.go:30
Size == 2 * k * CollaSize(t)

\* encrypt.go:34-71, the switch on size; no case takes a size above 512
AtSwitch ==
    CASE 0 <= Size /\ Size <= 128 -> AtCase1
      [] 129 <= Size /\ Size <= 256 -> AtCase2
      [] 257 <= Size /\ Size <= 384 -> AtCase3
      [] 385 <= Size /\ Size <= 512 -> AtCase4
      [] OTHER -> [ cipherText |-> NilSlice, final |-> << >>, short |-> FALSE ]

\* encrypt.go:12-77, one call of At(x, y, k, t, c)
At ==
    /\ atpc = "call"
    /\ IF CollaSize(t) = 0
       THEN /\ atpc' = "returned"
            /\ atR' = << >>
            /\ atErr' = "collasize"
            /\ atFinal' = << >>
       ELSE LET sw == AtSwitch
                res == SetBytes(sw.cipherText)
            IN  /\ atFinal' = sw.final
                /\ IF sw.short /\ ~tolerant
                   THEN /\ atpc' = "panicked"
                        /\ atR' = << >>
                        /\ atErr' = "nil"
                   ELSE /\ atpc' = "returned"
                        /\ atR' = Uint64(Trunc(res, k + 5))
                        /\ atErr' = "nil"
    /\ UNCHANGED << x, y, key, tolerant, wtVars, hdrVars, pfVars >>

AtIdle ==
    /\ x = << >>
    /\ y = << >>
    /\ key = 0
    /\ tolerant = FALSE
    /\ atpc = "idle"
    /\ atR = << >>
    /\ atErr = "nil"
    /\ atFinal = << >>

(***************************************************************************)
(* Collaborators of the pipeline whose code is outside the source files.   *)
(***************************************************************************)
\* F1.Calculate(x) of NewF1(k, id): the first table's hash of x
F1(seed, v) == (seed[1] + v * seed[2]) % (MaxFx + 1)

\* sort.OnDisk: the region re-ordered by hash value (stable)
RECURSIVE InsertByFx(_, _)
InsertByFx(s, e) ==
    IF s = << >> THEN << e >>
    ELSE IF s[Len(s)].Fx <= e.Fx THEN Append(s, e)
    ELSE Append(InsertByFx(SubSeq(s, 1, Len(s) - 1), e), s[Len(s)])

RECURSIVE SortByFx(_)
SortByFx(s) ==
    IF s = << >> THEN << >>
    ELSE InsertByFx(SortByFx(SubSeq(s, 1, Len(s) - 1)), s[Len(s)])

(***************************************************************************)
(* WritePlotFile (plot.go:25-82).                                           *)
(***************************************************************************)
\* the bytes a sequence of written entries takes
RECURSIVE SumBytes(_)
SumBytes(es) ==
    IF es = << >> THEN 0
    ELSE SumBytes(SubSeq(es, 1, Len(es) - 1)) + es[Len(es)].Bytes

\* plot.go:91, maxNumber of WriteFirstTable
FTMaxNumber_OneLess(kk) == (2 ^ kk) - 1
FTMaxNumber(kk) == 2 ^ kk

\* plot.go:95-96, the entry of x written at start+wrote, after the entries es
FTEntry(v, es) ==
    [ X |-> v, Fx |-> F1(id, v), Off |-> headerLen + SumBytes(es),
      Bytes |-> EntryBytes(1) ]

\* plot.go:94-101, the entries the first n iterations of the loop write
RECURSIVE FTEntries(_)
FTEntries(n) ==
    IF n = 0 THEN << >>
    ELSE Append(FTEntries(n - 1), FTEntry(n - 1, FTEntries(n - 1)))

\* the region of written entries as serialize.Read decodes it
TableEntries(es) == [ i \in 1..Len(es) |-> [ Fx |-> es[i].Fx, Meta |-> << es[i].X >> ] ]

\* plot.go:102, serialize.EOT: the sentinel follows the last entry written
EOTOffset(start, w) == start + w

\* the entries serialize.Read finds from offset off on, read elen bytes at a time
RegionAt(off, elen) ==
    LET hits == { i \in 1..Len(regions) :
                    regions[i].start = off /\ regions[i].elen = elen }
    IN  IF hits = { } THEN << >>
        ELSE regions[CHOOSE i \in hits : \A j \in hits : j <= i].entries

\* plot.go:56-58, a sort error ends the pipeline
SortFailed_Ignored(err) == FALSE
SortFailed(err) == err # "nil"

\* plot.go:78, the break that ends the loop after its first iteration
BreakAfterFirstPass == TRUE

\* plot.go:70, the last table of the loop
LastTable == 7

Return(err) ==
    /\ pc' = "returned"
    /\ retErr' = err

\* plot.go:26-29
PF_Create ==
    /\ pc = "create"
    /\ \E ok \in BOOLEAN :
         IF ok
         THEN /\ pc' = "header"
              /\ hstep' = 1
              /\ UNCHANGED retErr
         ELSE /\ Return("create")
              /\ UNCHANGED hstep
    /\ UNCHANGED << wtVars, atVars, memo, id, file, hn, hRet, hErr, hfail, availableMemory,
                    headerLen, wrote, maxNumber, spare, sortedTables, wtCalls,
                    regions, ftOut, sortCalls >>

\* plot.go:31-34, WriteHeader has returned
PF_AfterHeader ==
    /\ pc = "header"
    /\ hstep = 6
    /\ IF hErr # "nil"
       THEN /\ Return(hErr)
            /\ UNCHANGED headerLen
       ELSE /\ headerLen' = hRet
            /\ pc' = "first"
            /\ UNCHANGED retErr
    /\ UNCHANGED << wtVars, atVars, hdrVars, availableMemory, wrote, maxNumber, spare,
                    sortedTables, wtCalls, regions, ftOut, sortCalls >>

\* plot.go:38-41, WriteFirstTable (plot.go:84-107): NewF1 fails; or the write
\* of the entry of some x fails after nmore bytes; or the write of the sentinel
\* fails; or all of it succeeds
PF_FirstTable ==
    /\ pc = "first"
    /\ \E err \in {"nil", "newf1", "write", "eot"} :
       \E n \in 0..(FTMaxNumber(k) - 1), nmore \in 0..EntryBytes(1) :
         /\ err # "write" => (n = 0 /\ nmore = 0)
         /\ ftOut' = CASE err = "newf1" -> << >>
                        [] err = "write" ->
                             FTEntries(n) \o
                               (IF nmore > 0
                                THEN << [ FTEntry(n, FTEntries(n)) EXCEPT !.Bytes = nmore ] >>
                                ELSE << >>)
                        [] OTHER -> FTEntries(FTMaxNumber(k))
         /\ wrote' = SumBytes(ftOut')
         /\ IF err = "nil"
            THEN /\ regions' = << [ tb |-> 1, start |-> headerLen,
                                    elen |-> EntryBytes(1),
                                    entries |-> TableEntries(ftOut'),
                                    eot |-> { EOTOffset(headerLen, wrote') } ] >>
                 /\ pc' = "spare"
                 /\ UNCHANGED retErr
            ELSE /\ Return(err)
                 /\ UNCHANGED regions
    /\ UNCHANGED << wtVars, atVars, hdrVars, availableMemory, headerLen, maxNumber, spare,
                    sortedTables, wtCalls, sortCalls >>

\* plot.go:46, the first table does not fit the memory budget
NeedSpare_Geq(w, mem) == w >= mem
NeedSpare(w, mem) == w > mem

\* plot.go:45-51
PF_Spare ==
    /\ pc = "spare"
    /\ IF NeedSpare(wrote, availableMemory)
       THEN \E ok \in BOOLEAN :
              IF ok
              THEN /\ spare' = "created"
                   /\ pc' = "sort"
                   /\ UNCHANGED retErr
              ELSE /\ Return("createspare")
                   /\ UNCHANGED spare
       ELSE /\ pc' = "sort"
            /\ UNCHANGED << spare, retErr >>
    /\ UNCHANGED << wtVars, atVars, hdrVars, availableMemory, headerLen, wrote, maxNumber,
                    sortedTables, wtCalls, regions, ftOut, sortCalls >>

\* plot.go:54-58, sort.OnDisk over the first table
PF_SortFirst ==
    /\ pc = "sort"
    /\ maxNumber' = 2 ^ k
    /\ entryLen' = wrote \div maxNumber'
    /\ \E err \in {"nil", "sort"} :
         /\ sortCalls' = Append(sortCalls,
                                [ tb |-> 1, spare |-> spare, begin |-> headerLen,
                                  end |-> wrote + headerLen,
                                  availableMemory |-> availableMemory,
                                  entryLen |-> entryLen', maxNumber |-> maxNumber',
                                  err |-> err ])
         /\ IF err = "nil"
            THEN /\ sortedTables' = sortedTables \cup {1}
                 /\ regions' = [ regions EXCEPT ![1].entries = SortByFx(@) ]
            ELSE UNCHANGED << sortedTables, regions >>
         /\ IF SortFailed(err)
            THEN Return(err)
            ELSE /\ pc' = "newfx"
                 /\ UNCHANGED retErr
    /\ UNCHANGED << k, t, previousStart, currentStart, table, term,
                    read, written, bucketID, leftBucket, rightBucket, index,
                    wtpc, wtRet, wtErr, out, matcherCalls, hashCalls, last,
                    hdrVars, atVars, availableMemory, headerLen, wrote, spare, wtCalls,
                    ftOut >>

\* plot.go:63-70, NewFx and the start of the loop
PF_NewFx ==
    /\ pc = "newfx"
    /\ \E ok \in BOOLEAN :
         IF ok
         THEN /\ previousStart' = headerLen
              /\ currentStart' = headerLen + wrote
              /\ t' = 2
              /\ pc' = "call"
              /\ UNCHANGED retErr
         ELSE /\ Return("newfx")
              /\ UNCHANGED << previousStart, currentStart, t >>
    /\ UNCHANGED << k, entryLen, table, term,
                    read, written, bucketID, leftBucket, rightBucket, index,
                    wtpc, wtRet, wtErr, out, matcherCalls, hashCalls, last,
                    hdrVars, atVars, availableMemory, headerLen, wrote, maxNumber, spare,
                    sortedTables, wtCalls, regions, ftOut, sortCalls >>

\* plot.go:71, WriteTable is called (plot.go:111-121: its locals)
PF_CallWriteTable ==
    /\ pc = "call"
    /\ pc' = "pass"
    /\ wtCalls' = Append(wtCalls, t)
    /\ table' = RegionAt(previousStart, entryLen)
    /\ read' = 0
    /\ written' = 0
    /\ bucketID' = 0
    /\ leftBucket' = << >>
    /\ rightBucket' = << >>
    /\ index' = 0
    /\ wtpc' = "loop"
    /\ wtRet' = 0
    /\ wtErr' = "nil"
    /\ out' = << >>
    /\ matcherCalls' = << >>
    /\ hashCalls' = 0
    /\ last' = [ branch |-> "none", matched |-> FALSE, entry |-> << >>,
                 nl |-> 0, nr |-> 0 ]
    /\ UNCHANGED << k, t, previousStart, currentStart, entryLen, term,
                    hdrVars, atVars, availableMemory, headerLen, wrote, maxNumber, spare,
                    retErr, sortedTables, regions, ftOut, sortCalls >>

\* plot.go:72-81, WriteTable has returned
PF_Advance ==
    /\ pc = "pass"
    /\ wtpc = "done"
    /\ IF wtErr # "nil"
       THEN /\ Return(wtErr)
            /\ UNCHANGED << previousStart, currentStart, entryLen, t, regions >>
       ELSE /\ previousStart' = previousStart + wtRet
            /\ currentStart' = currentStart + wtRet
            /\ entryLen' = wtRet \div maxNumber
            /\ regions' = Append(regions,
                                 [ tb |-> t, start |-> currentStart,
                                   elen |-> EntryBytes(t),
                                   eot |-> { },
                                   entries |-> [ i \in 1..Len(out) |->
                                                   [ Fx |-> out[i].Fx,
                                                     Meta |-> out[i].Meta ] ] ])
            /\ IF BreakAfterFirstPass \/ t + 1 > LastTable
               THEN /\ Return("nil")
                    /\ UNCHANGED t
               ELSE /\ t' = t + 1
                    /\ pc' = "call"
                    /\ UNCHANGED retErr
    /\ UNCHANGED << k, table, term,
                    read, written, bucketID, leftBucket, rightBucket, index,
                    wtpc, wtRet, wtErr, out, matcherCalls, hashCalls, last,
                    hdrVars, atVars, availableMemory, headerLen, wrote, maxNumber, spare,
                    sortedTables, wtCalls, ftOut, sortCalls >>

PFIdle ==
    /\ pc = "idle"
    /\ availableMemory = 0
    /\ headerLen = 0
    /\ wrote = 0
    /\ maxNumber = 0
    /\ spare = "nil"
    /\ retErr = "nil"
    /\ sortedTables = { }
    /\ wtCalls = << >>
    /\ regions = << >>
    /\ ftOut = << >>
    /\ sortCalls = << >>

\* no table pass has been started
WTIdle ==
    /\ t = 0
    /\ previousStart = 0
    /\ currentStart = 0
    /\ entryLen = 0
    /\ table = << >>
    /\ term = "EOT"
    /\ read = 0
    /\ written = 0
    /\ bucketID = 0
    /\ leftBucket = << >>
    /\ rightBucket = << >>
    /\ index = 0
    /\ wtpc = "idle"
    /\ wtRet = 0
    /\ wtErr = "nil"
    /\ out = << >>
    /\ matcherCalls = << >>
    /\ hashCalls = 0
    /\ last = [ branch |-> "none", matched |-> FALSE, entry |-> << >>, nl |-> 0, nr |-> 0 ]

\* a run of WritePlotFile(filename, k, availableMemory, memo, id)
Init ==
    /\ k \in 1..MaxK
    /\ availableMemory \in { (2 ^ MaxK) * EntryBytes(1) - 1, (2 ^ MaxK) * EntryBytes(1) }
    /\ memo \in { MemoOf(len) : len \in {0, MaxMemoLen} }
    /\ id \in Ids
    /\ pc = "create"
    /\ headerLen = 0
    /\ wrote = 0
    /\ maxNumber = 0
    /\ spare = "nil"
    /\ retErr = "nil"
    /\ sortedTables = { }
    /\ wtCalls = << >>
    /\ regions = << >>
    /\ ftOut = << >>
    /\ sortCalls = << >>
    /\ file = << >>
    /\ hstep = 0
    /\ hn = 0
    /\ hRet = 0
    /\ hErr = "nil"
    /\ hfail = [ at |-> 0, nmore |-> 0 ]
    /\ WTIdle
    /\ AtIdle

Next ==
    \/ PF_Create
    \/ HW_WriteOk
    \/ HW_WriteFail
    \/ PF_AfterHeader
    \/ PF_FirstTable
    \/ PF_Spare
    \/ PF_SortFirst
    \/ PF_NewFx
    \/ PF_CallWriteTable
    \/ WT_ReadEnd
    \/ WT_ReadError
    \/ WT_Step
    \/ WT_StepFail
    \/ PF_Advance

Spec == Init /\ [][Next]_vars

(***************************************************************************)
(* A stand-alone WriteTable pass over any previous table.                   *)
(***************************************************************************)
RECURSIVE SeqsUpTo(_, _)
SeqsUpTo(S, n) ==
    IF n = 0 THEN { << >> }
    ELSE LET shorter == SeqsUpTo(S, n - 1)
         IN  shorter \cup { Append(s, e) : s \in { q \in shorter : Len(q) = n - 1 }, e \in S }

\* a table region holding the hash values fs; the metadata of entry i is <<i>>
TableOf(fs) == [ i \in 1..Len(fs) |-> [ Fx |-> fs[i], Meta |-> << i >> ] ]

IsSorted(tb) == \A i \in 1..(Len(tb) - 1) : tb[i].Fx <= tb[i + 1].Fx

\* plot.go:111-121, the locals of a fresh pass
WTLocalsInit ==
    /\ read = 0
    /\ written = 0
    /\ bucketID = 0
    /\ leftBucket = << >>
    /\ rightBucket = << >>
    /\ index = 0
    /\ wtpc = "loop"
    /\ wtRet = 0
    /\ wtErr = "nil"
    /\ out = << >>
    /\ matcherCalls = << >>
    /\ hashCalls = 0
    /\ last = [ branch |-> "none", matched |-> FALSE, entry |-> << >>, nl |-> 0, nr |-> 0 ]

InitWT ==
    /\ k = 1
    /\ t \in {2, 7}
    /\ entryLen = EntryBytes(1)
    /\ table \in { TableOf(fs) : fs \in SeqsUpTo(0..MaxFx, MaxLen) }
    /\ term \in {"EOT", "EOF"}
    /\ previousStart = 0
    /\ currentStart = Len(table) * entryLen
    /\ WTLocalsInit
    /\ HdrIdle
    /\ PFIdle
    /\ AtIdle

NextWT == WT_ReadEnd \/ WT_ReadError \/ WT_Step \/ WT_StepFail

SpecWT == InitWT /\ [][NextWT]_vars

(***************************************************************************)
(* Claims about the table pass.                                             *)
(***************************************************************************)
InSeq(e, s) == \E i \in 1..Len(s) : s[i] = e

\* C1 (as claimed): a pass that ends at the sentinel or the end of the file
\* with leftBucket and rightBucket both non-empty has written one next-table
\* entry for every match of that pair before it returns.
C1_FlushAtEnd ==
    ( /\ wtpc = "done"
      /\ last.branch \in {"EOT", "EOF"}
      /\ IsSorted(table)
      /\ Len(leftBucket) > 0
      /\ Len(rightBucket) > 0 )
    => LET ms == FindMatches(leftBucket, rightBucket)
       IN  \A i \in 1..Len(ms) :
             \E j \in 1..Len(out) : /\ out[j].Left = ms[i].LeftIndex
                                    /\ out[j].Right = ms[i].RightIndex

\* C5 (as claimed): after the default branch the entry that triggered it is a
\* member of leftBucket or rightBucket, according to its bucket id relative to
\* the new currentBucketID.
C5_TriggerClassified ==
    ( /\ wtpc = "loop"
      /\ last.branch = "default"
      /\ IsSorted(table) )
    => LET leftBucketID == BucketID(last.entry.Fx)
       IN  /\ leftBucketID \in {bucketID, bucketID + 1}
           /\ leftBucketID = bucketID => InSeq(last.entry, leftBucket)
           /\ leftBucketID = bucketID + 1 => InSeq(last.entry, rightBucket)

\* C6: a step of the pass taken while leftBucket or rightBucket is empty
\* invokes neither the matcher nor the hash and writes nothing: the written
\* count and the next table's region are unchanged by it.
C6_NoMatchOnEmptyBucket ==
    [][ ( /\ wtpc = "loop"
          /\ (Len(leftBucket) = 0 \/ Len(rightBucket) = 0) )
        => /\ written' = written
           /\ out' = out
           /\ matcherCalls' = matcherCalls
           /\ hashCalls' = hashCalls
           /\ wtpc' = "done" => wtRet' = written ]_vars

\* C6 witness: the default branch was taken with entries in leftBucket and
\* none in rightBucket, and nothing was matched or written.
C6_Witness ==
    /\ last.branch = "default"
    /\ last.nl > 0
    /\ last.nr = 0
    /\ ~last.matched
    /\ out = << >>

\* C13: a read, hash, collation or write error ends the pass in that step:
\* the count returned is the number of bytes written to the new table, all
\* entries but a last partly written one are whole, a read error writes
\* nothing, what was written before stays, and after the return nothing more
\* is read or written.
C13_ErrorEndsPass ==
    /\ []((wtpc = "done" /\ wtErr # "nil")
          => /\ wtRet = SumBytes(out)
             /\ \A j \in 1..(Len(out) - 1) : out[j].Bytes = EntryBytes(t)
             /\ index < Len(table)
             /\ last.branch # "readerr" => index * entryLen = read - entryLen)
    /\ [][(wtpc = "loop" /\ wtpc' = "done" /\ wtErr' # "nil")
          => /\ Len(out') >= Len(out)
             /\ SubSeq(out', 1, Len(out)) = out
             /\ wtErr' = "read" => (out' = out /\ read' = read)
             /\ index' = index]_vars
    /\ [][wtpc = "done"
          => UNCHANGED << read, index, out, written, wtRet, wtErr, hashCalls >>]_vars

\* C13 witness: the write of an entry failed after some of its bytes, with a
\* whole entry written before it.
C13_Witness ==
    /\ wtpc = "done"
    /\ wtErr = "write"
    /\ Len(out) >= 2
    /\ out[Len(out)].Bytes < EntryBytes(t)
    /\ wtRet > written

\* C16: an entry of bucket currentBucketID or currentBucketID+1 is appended
\* to its bucket and leaves currentBucketID alone; an entry of bucket
\* currentBucketID+2 makes the right bucket the left one, empties the right
\* one and adds one to currentBucketID; any other entry empties both buckets
\* and makes its own bucket the current one.
C16_SlideOrReset ==
    [][(wtpc = "loop" /\ wtpc' = "loop" /\ index' = index + 1)
       => LET e == last'.entry
              b == BucketID(e.Fx)
          IN  CASE b = bucketID ->
                     /\ bucketID' = bucketID
                     /\ leftBucket' = Append(leftBucket, e)
                     /\ rightBucket' = rightBucket
                [] b = bucketID + 1 ->
                     /\ bucketID' = bucketID
                     /\ leftBucket' = leftBucket
                     /\ rightBucket' = Append(rightBucket, e)
                [] b = bucketID + 2 ->
                     /\ bucketID' = bucketID + 1
                     /\ leftBucket' = rightBucket
                     /\ rightBucket' = << >>
                [] OTHER ->
                     /\ bucketID' = b
                     /\ leftBucket' = << >>
                     /\ rightBucket' = << >>]_vars

\* C16 witness: the default branch has slid a right bucket of two entries
\* into the left one, after a match.
C16_Witness ==
    /\ wtpc = "loop"
    /\ last.branch = "default"
    /\ last.matched
    /\ Len(leftBucket) = 2
    /\ rightBucket = << >>
    /\ bucketID = 1

\* the previous table's entries with the index the pass gives them
IndexedTable ==
    [ i \in 1..Len(table) |->
        [ Fx |-> table[i].Fx, Meta |-> table[i].Meta, Index |-> i - 1 ] ]

\* all entries of bucket b, in read order
BucketOf(b) == SelectSeq(IndexedTable, LAMBDA e : BucketID(e.Fx) = b)

\* C17 (as claimed): over a sorted table, every call of FindMatches made with
\* currentBucketID = b gets all entries of bucket b as the left bucket and all
\* entries of bucket b+1 as the right one, in read order, and a pass that
\* returns nil has matched every pair of adjacent non-empty buckets once.
C17_BucketsCompleteMatchedOnce ==
    IsSorted(table)
    => /\ \A i \in 1..Len(matcherCalls) :
            /\ matcherCalls[i].left = BucketOf(matcherCalls[i].bucketID)
            /\ matcherCalls[i].right = BucketOf(matcherCalls[i].bucketID + 1)
       /\ (wtpc = "done" /\ wtErr = "nil")
          => \A b \in 0..BucketID(MaxFx) :
               (BucketOf(b) # << >> /\ BucketOf(b + 1) # << >>)
               => Cardinality({ i \in 1..Len(matcherCalls) :
                                  matcherCalls[i].bucketID = b }) = 1

C2_AllSixPasses ==
    (pc = "returned" /\ retErr = "nil") => wtCalls = << 2, 3, 4, 5, 6, 7 >>

\* C3: every WriteTable pass for table t+1 was started after sort.OnDisk
\* returned successfully for table t, and a run ended by a sort error has
\* started no pass.
C3_SortedBeforeNextPass ==
    /\ \A i \in 1..Len(wtCalls) : (wtCalls[i] - 1) \in sortedTables
    /\ retErr = "sort" => wtCalls = << >>

\* C3 witness: the pass for table 2 is running over the sorted first table.
C3_Witness ==
    /\ pc = "pass"
    /\ wtCalls = << 2 >>
    /\ 1 \in sortedTables
    /\ IsSorted(table)
    /\ Len(table) = 2 ^ k
    /\ index > 0

\* C4 (as claimed): when WritePlotFile returns nil, every derived table a
\* WriteTable pass has written was handed to sort.OnDisk.
C4_DerivedTablesSorted ==
    (pc = "returned" /\ retErr = "nil")
    => \A i \in 1..Len(regions) : regions[i].tb \in sortedTables

\* C11: a successful WriteFirstTable has written exactly 2^k entries, the
\* entry of x = i-1 as the i-th, the first at the end of the header and each
\* next one where the one before ended, and has returned the sum of their
\* byte counts.
C11_FirstTableEntries ==
    regions # << >>
    => /\ Len(ftOut) = 2 ^ k
       /\ \A i \in 1..Len(ftOut) :
            /\ ftOut[i].X = i - 1
            /\ ftOut[i].Bytes > 0
            /\ ftOut[i].Off = IF i = 1 THEN headerLen
                              ELSE ftOut[i - 1].Off + ftOut[i - 1].Bytes
       /\ wrote = SumBytes(ftOut)

\* C11 witness: WriteFirstTable has just returned nil for the largest k.
C11_Witness ==
    /\ pc = "spare"
    /\ k = MaxK
    /\ Len(ftOut) = 2 ^ MaxK
    /\ ftOut[Len(ftOut)].Off > headerLen

\* C12 (as claimed): every table region that has been written is followed,
\* immediately after its last entry, by the end-of-table sentinel, and no
\* entry the running pass writes covers the sentinel of the table it reads.
C12_SentinelAfterEveryTable ==
    /\ \A i \in 1..Len(regions) :
         regions[i].eot =
           { regions[i].start + Len(regions[i].entries) * regions[i].elen }
    /\ (pc = "pass" /\ regions # << >>)
       => \A j \in 1..Len(out) :
            regions[Len(regions)].eot
              \cap (out[j].Off .. (out[j].Off + out[j].Bytes - 1)) = { }

\* C14 (as claimed): whenever the pipeline divides the byte count of a table
\* by 2^k to get the entry length and the division is not exact, WritePlotFile
\* does not go on: a run that returns nil has only divided exactly.
C14_NonExactDivisionFatal ==
    /\ \A i \in 1..Len(sortCalls) :
         sortCalls[i].err = "nil" => wrote % sortCalls[i].maxNumber = 0
    /\ (pc = "returned" /\ retErr = "nil") => wtRet % maxNumber = 0

\* C15: the spare file is created exactly when the first table's byte size is
\* greater than availableMemory; otherwise none is created and sort.OnDisk
\* gets a nil spare; a failure to create it returns before any sort.
C15_SpareFileIffOverBudget ==
    /\ spare = "created" => wrote > availableMemory
    /\ pc \in {"sort", "newfx", "call", "pass"}
       => (spare = "created" <=> wrote > availableMemory)
    /\ \A i \in 1..Len(sortCalls) :
         sortCalls[i].spare = IF wrote > availableMemory THEN "created" ELSE "nil"
    /\ retErr = "createspare"
       => (sortCalls = << >> /\ sortedTables = { } /\ spare = "nil"
           /\ wrote > availableMemory)

\* C15 witness: a first table of exactly availableMemory bytes has been
\* handed to sort.OnDisk with a nil spare.
C15_Witness ==
    /\ sortCalls # << >>
    /\ wrote = availableMemory
    /\ sortCalls[1].spare = "nil"
    /\ spare = "nil"

\* C18 (as claimed): when an iteration of the loop starts, and after the
\* offset update that ends it, previousStart is the start of the table
\* completed last and currentStart is the offset right after its last entry.
C18_OffsetsTrackLastTable ==
    ((pc = "call" \/ (pc = "returned" /\ retErr = "nil")) /\ regions # << >>)
    => LET r == regions[Len(regions)]
       IN  /\ previousStart = r.start
           /\ currentStart = r.start + Len(r.entries) * r.elen

\* C19 (as claimed): during a pass WritePlotFile started, every entry is read
\* from an offset below currentStart, and every entry is written at or beyond
\* the end of the table being read, its sentinel included.
C19_PassStaysInItsRegions ==
    (pc = "pass" /\ regions # << >>)
    => LET r == regions[Len(regions)]
       IN  /\ \A i \in 0..(index - 1) : previousStart + i * entryLen < currentStart
           /\ \A j \in 1..Len(out) :
                /\ out[j].Off >= r.start + Len(r.entries) * r.elen
                /\ \A o \in r.eot : out[j].Off > o

(***************************************************************************)
(* A stand-alone WriteHeader call, and the claims about it.                 *)
(***************************************************************************)
InitHdr ==
    /\ k \in 1..(MaxK + 1)
    /\ memo \in { MemoOf(len) : len \in MemoLens }
    /\ id \in Ids
    /\ HdrStart
    /\ WTIdle
    /\ PFIdle
    /\ AtIdle

NextHdr == HW_WriteOk \/ HW_WriteFail

SpecHdr == InitHdr /\ [][NextHdr]_vars

\* plot.go:190-194, the documented layout read back; the length field is read
\* low byte first, the order in which WriteHeader fills it
DecodeHeader(bytes) ==
    LET fixed == Len(Magic) + IdLen + 1
        size == bytes[fixed + 1] + ByteMod * bytes[fixed + 2]
    IN  [ magic |-> SubSeq(bytes, 1, Len(Magic)),
          id    |-> SubSeq(bytes, Len(Magic) + 1, Len(Magic) + IdLen),
          k     |-> bytes[fixed],
          size  |-> size,
          memo  |-> SubSeq(bytes, fixed + 3, fixed + 2 + size),
          rest  |-> Len(bytes) - (fixed + 2 + size) ]

\* C9 (as claimed): the bytes a successful WriteHeader wrote decode back to
\* (magic, id, k, memo): the length field's value is len(memo) and exactly
\* len(memo) memo bytes follow it.
C9_HeaderRoundTrip ==
    (hstep = 6 /\ hErr = "nil")
    => DecodeHeader(file) = [ magic |-> Magic, id |-> id, k |-> k,
                              size |-> Len(memo), memo |-> memo, rest |-> 0 ]

\* the bytes of the first i fields
RECURSIVE FieldsUpTo(_)
FieldsUpTo(i) == IF i = 0 THEN << >> ELSE FieldsUpTo(i - 1) \o HeaderField(i)

\* C10: WriteHeader returns the number of bytes it wrote: all five fields on
\* success; when the i-th write fails, the fields before it and the bytes the
\* failing write wrote, with the error and nothing of a later field.
C10_HeaderCount ==
    hstep = 6
    => /\ hRet = Len(file)
       /\ hErr = "nil" =>
            /\ hRet = Len(Magic) + Len(id) + 1 + 2 + Len(memo)
            /\ file = FieldsUpTo(5)
       /\ hErr # "nil" =>
            /\ hfail.at \in 1..5
            /\ file = FieldsUpTo(hfail.at - 1)
                        \o SubSeq(HeaderField(hfail.at), 1, hfail.nmore)
            /\ hRet = Len(FieldsUpTo(hfail.at - 1)) + hfail.nmore

\* C10 witness: the write of the length field failed after one of its bytes.
C10_Witness ==
    /\ hstep = 6
    /\ hErr = "write"
    /\ hfail = [ at |-> 4, nmore |-> 1 ]
    /\ hRet = Len(Magic) + IdLen + 1 + 1

(***************************************************************************)
(* Calls of At, and the claims about it.                                    *)
(***************************************************************************)
\* arguments x and y: small values, a full block, a value wider than a block
AtInputs == { BitsOf(0), BitsOf(5), [ i \in 1..BlockBits |-> i % 2 ],
              << 1, 1 >> \o Zeros(BlockBits - 1) \o << 1 >> }

\* sizes on both sides of every boundary of the switch, for t in 2..7
AtKs == { 16, 32, 48, 64, 65, 86 }

InitAt ==
    /\ k \in AtKs
    /\ t \in 1..8
    /\ x \in AtInputs
    /\ y \in AtInputs
    /\ key \in 0..MaxKey
    /\ tolerant \in BOOLEAN
    /\ atpc = "call"
    /\ atR = << >>
    /\ atErr = "nil"
    /\ atFinal = << >>
    /\ previousStart = 0
    /\ currentStart = 0
    /\ entryLen = 0
    /\ table = << >>
    /\ term = "EOT"
    /\ read = 0
    /\ written = 0
    /\ bucketID = 0
    /\ leftBucket = << >>
    /\ rightBucket = << >>
    /\ index = 0
    /\ wtpc = "idle"
    /\ wtRet = 0
    /\ wtErr = "nil"
    /\ out = << >>
    /\ matcherCalls = << >>
    /\ hashCalls = 0
    /\ last = [ branch |-> "none", matched |-> FALSE, entry |-> << >>, nl |-> 0, nr |-> 0 ]
    /\ HdrIdle
    /\ PFIdle

NextAt == At

SpecAt == InitAt /\ [][NextAt]_vars

\* C7 (as claimed): for a combined size 2*k*collationSize(t) above 512, At
\* returns an error and never a nil error.
C7_UnsupportedSizeError ==
    (atpc \in {"returned", "panicked"} /\ CollaSize(t) # 0 /\ Size > 512)
    => (atpc = "returned" /\ atErr # "nil")

\* C8 (as claimed): for a combined size in [0,512], the value At returns is
\* the most significant k+5 bits of the block its final Encrypt produced.
C8_TopBitsOfFinalBlock ==
    (atpc = "returned" /\ CollaSize(t) # 0 /\ Size <= 512)
    => /\ atErr = "nil"
       /\ atR = Uint64(Norm(SubSeq(atFinal, 1, k + 5)))

====
